---- MODULE Spec2Model ----
(***************************************************************************)
(* Model of the Vespa CLI installers and of the batch binary downloader.   *)
(*                                                                         *)
(*   prog = "vespa_client"  : src/vespa_client/cli/installer.py            *)
(*   prog = "vespa"         : src/vespa/cli/installer.py (earlier revision)*)
(*   prog = "downloader"    : src/utils/download_binaries.py               *)
(*                                                                         *)
(* One behaviour is a sequence of runs of one program on one host.  The    *)
(* file system persists between the runs; the log belongs to one run.      *)
(* The remote release host, the subprocesses (setx, brew) and the parts of *)
(* the file system the programs do not own are the environment: their      *)
(* answers are chosen with \E in the action that asks for them.  The       *)
(* latest release is the same one throughout a behaviour.                  *)
(***************************************************************************)
EXTENDS Integers, Sequences, FiniteSets, TLC

VARIABLES
    prog,            \* which program of the repository is running
    latest_tag,      \* tag_name of the latest release on the release host
    host,            \* [system, machine]: platform.system(), platform.machine()
    pc,              \* position of the run
    run_no,          \* number of the current run (process) on this host
    os_name,         \* self.os_name
    arch,            \* self.arch
    version,         \* the version string obtained from the release tag
    url,             \* download_url of the last download_and_extract_cli
    file_path,       \* the path download_file created / returned
    extract_path,    \* the directory extract_file returned
    vespa_bin_path,  \* the located executable
    fs,              \* the file system: path -> [data, mode]
    log,             \* the log records of this run, in order
    exc,             \* the exception that is propagating, NoExc when none
    io,              \* what the environment answered to the last request
    user_env,        \* [path, aliases]: the user's PATH and the alias lines
                     \* appended to the shell profile
    idx,             \* downloader: index of the (os, arch) pair being processed
    checksum_content \* downloader: the manifest lines read by run

vars == <<prog, latest_tag, host, pc, run_no, os_name, arch, version, url, file_path,
          extract_path, vespa_bin_path, fs, log, exc, io, user_env, idx,
          checksum_content>>

----------------------------------------------------------------------------
(* Bounds of the model *)

\* number of runs of the program on the same host
MaxRuns == 2

----------------------------------------------------------------------------
(* Strings *)

None == "None"

RECURSIVE Join(_)
\* "".join(chars)
Join(s) == IF s = <<>> THEN "" ELSE Head(s) \o Join(Tail(s))

\* str.replace("v", ""): every "v" of the string is dropped
ReplaceV(chars) == SelectSeq(chars, LAMBDA c : c # "v")

RECURSIVE LStripV(_)
LStripV(chars) ==
    IF chars # <<>> /\ Head(chars) = "v" THEN LStripV(Tail(chars)) ELSE chars

RECURSIVE RStripV(_)
RStripV(chars) ==
    IF chars # <<>> /\ chars[Len(chars)] = "v"
    THEN RStripV(SubSeq(chars, 1, Len(chars) - 1)) ELSE chars

\* str.strip("v"): leading and trailing "v" are dropped
StripV(chars) == RStripV(LStripV(chars))

\* the tag_name values the latest release can have
Tags == { <<"v", "8", ".", "2", "9", "9", ".", "1", "4">>,
          <<"v", "8", ".", "3", "0", "0", ".", "1">> }

\* str.lower() on the names platform.system() and platform.machine() return
Lower(s) ==
    CASE s = "Linux"   -> "linux"
      [] s = "Darwin"  -> "darwin"
      [] s = "Windows" -> "windows"
      [] s = "FreeBSD" -> "freebsd"
      [] s = "AMD64"   -> "amd64"
      [] s = "ARM64"   -> "arm64"
      [] OTHER         -> s

\* hosts: what platform.system() and platform.machine() report there
Hosts ==
    {[system |-> "Linux",   machine |-> "x86_64"],
     [system |-> "Linux",   machine |-> "aarch64"],
     [system |-> "Linux",   machine |-> "i686"],
     [system |-> "Darwin",  machine |-> "x86_64"],
     [system |-> "Darwin",  machine |-> "arm64"],
     [system |-> "Windows", machine |-> "AMD64"],
     [system |-> "Windows", machine |-> "ARM64"],
     [system |-> "Windows", machine |-> "x86"],
     [system |-> "FreeBSD", machine |-> "amd64"]}

----------------------------------------------------------------------------
(* Platform resolution *)

SUPPORTED_OS == {"windows", "darwin", "linux"}

ARCH_MAP == [m \in {"x86_64", "amd64", "arm64", "aarch64"} |->
               IF m \in {"x86_64", "amd64"} THEN "amd64" ELSE "arm64"]

\* dict.get(key, default)
DictGet(d, k, default) == IF k \in DOMAIN d THEN d[k] ELSE default

\* get_os_and_architecture of vespa_client: [raised, os_name, arch].
\* ARCH_MAP.get(machine, None): no default architecture.
GetOsAndArchitecture(system, machine) ==
    LET o == Lower(system)
        m == Lower(machine)
        a == DictGet(ARCH_MAP, m, None)
    IN  IF o \notin SUPPORTED_OS \/ a = None
        THEN [raised |-> TRUE,  os_name |-> None, arch |-> None]
        ELSE [raised |-> FALSE, os_name |-> o,    arch |-> a]

\* get_os_and_architecture of the earlier revision (vespa/cli/installer.py):
\* ARCH_MAP.get(machine, "386"), and only the OS is checked.
LegacyGetOsAndArchitecture(system, machine) ==
    LET o == Lower(system)
        m == Lower(machine)
        a == DictGet(ARCH_MAP, m, "386")
    IN  IF o \notin SUPPORTED_OS
        THEN [raised |-> TRUE,  os_name |-> None, arch |-> None]
        ELSE [raised |-> FALSE, os_name |-> o,    arch |-> a]

\* self.vespa_executable_name
VespaExecutableName(o) == IF o = "windows" THEN "vespa.exe" ELSE "vespa"

----------------------------------------------------------------------------
(* Exceptions and log records *)

NoExc == [type |-> "none", origin |-> "none"]
Exc(t, f) == [type |-> t, origin |-> f]

\* subclasses of requests.exceptions.RequestException
RequestExceptions == {"ConnectionError", "HTTPError"}

Rec(level, by, msg) == [level |-> level, by |-> by, msg |-> msg]

----------------------------------------------------------------------------
(* File system *)

\* a path is the tuple of its components; NoPath stands for Python's None
NoPath == <<>>

\* kind: "file", "dir", "exe", "archive", "corrupt", "symlink", "text"
\* info: what the file holds; mode: permission bits;
\* refs: the members of an archive, the target of a symlink
File(kind, info, mode, refs) ==
    [kind |-> kind, info |-> info, mode |-> mode, refs |-> refs]

Dir == File("dir", "", 493, {})

Exists(f, p) == p \in DOMAIN f

FsWrite(f, p, rec) == [q \in DOMAIN f \cup {p} |-> IF q = p THEN rec ELSE f[q]]

\* os.remove of an existing path
FsRemove(f, p) == [q \in DOMAIN f \ {p} |-> f[q]]

FsUnion(f, g) == [q \in DOMAIN f \cup DOMAIN g |->
                    IF q \in DOMAIN g THEN g[q] ELSE f[q]]

EmptyFs == [q \in {} |-> Dir]

\* os.path.basename
Basename(p) == p[Len(p)]

\* p lies under directory d
Under(p, d) == Len(p) > Len(d) /\ SubSeq(p, 1, Len(d)) = d

\* tempfile.NamedTemporaryFile(suffix=".<ext>", delete=False).name: a fresh name
TmpFile(n, ext) == <<"tmp", "tmp" \o ToString(n) \o "." \o ext>>

\* tempfile.mkdtemp(): a fresh directory
TmpDir(n) == <<"tmp", "tmpdir" \o ToString(n)>>

\* the current working directory of the process
Cwd == <<"cwd">>

----------------------------------------------------------------------------
(* The release host *)

FileExtension(o) == IF o = "windows" THEN "zip" ELSE "tar.gz"

RECURSIVE JoinWith(_, _)
\* sep.join(parts)
JoinWith(sep, parts) ==
    IF parts = <<>> THEN ""
    ELSE IF Len(parts) = 1 THEN parts[1]
    ELSE parts[1] \o sep \o JoinWith(sep, Tail(parts))

ArchiveName(v, o, a) ==
    "vespa-cli_" \o v \o "_" \o o \o "_" \o a \o "." \o FileExtension(o)

\* DownloadUrl with the architecture put before the OS in the file name
DownloadUrlSwapped(v, o, a) ==
    <<"https:", "", "github.com", "vespa-engine", "vespa", "releases",
      "download", "v" \o v,
      "vespa-cli_" \o v \o "_" \o a \o "_" \o o \o "." \o FileExtension(o)>>

\* download_url of download_and_extract_cli, kept as url.split("/")
DownloadUrl(v, o, a) ==
    <<"https:", "", "github.com", "vespa-engine", "vespa", "releases",
      "download", "v" \o v, ArchiveName(v, o, a)>>

\* the URL as the string the f-string builds
UrlString(u) == JoinWith("/", u)

\* layouts of a release archive: the executable is at
\* vespa-cli_<v>_<os>_<arch>/bin ("os_arch"), at vespa-cli_<v>_<arch>/bin
\* ("arch"), at the top of the archive ("flat"), or missing ("no_exe"); mode
\* is the permission of the executable in the archive (0o644 = 420,
\* 0o750 = 488)
Shapes ==
    {[layout |-> "os_arch", mode |-> 420], [layout |-> "arch", mode |-> 420],
     [layout |-> "flat", mode |-> 488], [layout |-> "no_exe", mode |-> 420]}

\* the member paths of the archive the release host serves for (v, o, a)
Members(layout, v, o, a) ==
    LET top == IF layout = "arch" THEN "vespa-cli_" \o v \o "_" \o a
               ELSE "vespa-cli_" \o v \o "_" \o o \o "_" \o a
    IN  {<<top, "README.md">>} \cup
        (IF layout = "no_exe" THEN {}
         ELSE IF layout = "flat" THEN {<<VespaExecutableName(o)>>}
         ELSE {<<top, "bin", VespaExecutableName(o)>>})

Archive(layout, mode, v, o, a) == File("archive", v, mode, Members(layout, v, o, a))

Corrupt == File("corrupt", "", 0, {})

Empty == File("file", "", 384, {})

\* what a GET of the archive URL can answer
Responses(v, o, a) ==
    {[status |-> "ok", body |-> Archive(sh.layout, sh.mode, v, o, a)] : sh \in Shapes}
    \cup {[status |-> "ok", body |-> Corrupt]}
    \cup {[status |-> st, body |-> Empty] :
            st \in {"ConnectionError", "HTTPError", "OSError"}}

\* the files an archive unpacks to under dir
Tree(dir, archive) ==
    [p \in {dir \o m : m \in archive.refs} |->
        IF Basename(p) \in {"vespa", "vespa.exe"}
        THEN File("exe", archive.info, archive.mode, {})
        ELSE File("text", archive.info, 420, {})]

----------------------------------------------------------------------------
(* Installer: download and extraction *)

\* DownloadFile with "raise" left out of the except clause: a request error is
\* logged and the function returns
DownloadFileSwallow(tmp, resp, f) ==
    LET f1 == FsWrite(f, tmp, Empty)
        start == Rec("INFO", "download_file", "Starting download")
    IN  IF resp.status = "ok"
        THEN [fs  |-> FsWrite(f1, tmp, resp.body), ret |-> tmp, exc |-> NoExc,
              log |-> <<start, Rec("INFO", "download_file", "Download completed")>>]
        ELSE IF resp.status \in RequestExceptions
        THEN [fs  |-> f1, ret |-> tmp, exc |-> NoExc,
              log |-> <<start, Rec("ERROR", "download_file", "Failed to download file")>>]
        ELSE [fs  |-> f1, ret |-> NoPath, exc |-> Exc(resp.status, "download_file"),
              log |-> <<start>>]

\* download_file(url, file_extension): [fs, ret, exc, log]
DownloadFile(tmp, resp, f) ==
    LET f1 == FsWrite(f, tmp, Empty)    \* NamedTemporaryFile(delete=False)
        start == Rec("INFO", "download_file", "Starting download")
    IN  IF resp.status = "ok"
        THEN [fs  |-> FsWrite(f1, tmp, resp.body),
              ret |-> tmp,
              exc |-> NoExc,
              log |-> <<start, Rec("INFO", "download_file", "Download completed")>>]
        ELSE IF resp.status \in RequestExceptions
        THEN [fs  |-> f1,
              ret |-> NoPath,
              exc |-> Exc(resp.status, "download_file"),
              log |-> <<start, Rec("ERROR", "download_file", "Failed to download file")>>]
        ELSE [fs  |-> f1,
              ret |-> NoPath,
              exc |-> Exc(resp.status, "download_file"),
              log |-> <<start>>]

\* the archive at path cannot be opened as a tar or zip file
Unreadable(f, path, ext) ==
    ext \in {"tar.gz", "zip"} /\ (~Exists(f, path) \/ f[path].kind # "archive")

\* the error that leaves extract_file: the archive error, or the error of
\* os.remove in the finally block when there is no file to remove
ExtractError(f, path) == IF Exists(f, path) THEN "ReadError" ELSE "FileNotFoundError"

\* what extractall writes under dir
Extracted(f, path, ext, dir) ==
    IF ext \in {"tar.gz", "zip"} /\ ~Unreadable(f, path, ext)
    THEN Tree(dir, f[path]) ELSE EmptyFs

\* ExtractFile with os.remove after the try block instead of in finally: the
\* archive is removed only when the extraction succeeded
ExtractFileNoFinally(path, ext, dir, f) ==
    LET start  == Rec("INFO", "extract_file", "Extracting file")
        f1     == FsWrite(f, dir, Dir)
        f2     == FsUnion(f1, Extracted(f, path, ext, dir))
    IN  IF Unreadable(f, path, ext)
        THEN [fs  |-> f1,
              ret |-> NoPath,
              exc |-> Exc("ReadError", "extract_file"),
              log |-> <<start, Rec("ERROR", "extract_file", "Failed to extract file")>>]
        ELSE [fs  |-> FsRemove(f2, path),
              ret |-> dir,
              exc |-> NoExc,
              log |-> <<start, Rec("INFO", "extract_file", "Extraction completed")>>]

\* extract_file(file_path, file_extension) of vespa_client: [fs, ret, exc, log]
\* dir is the directory tempfile.mkdtemp() made
ExtractFile(path, ext, dir, f) ==
    LET start  == Rec("INFO", "extract_file", "Extracting file")
        f1     == FsWrite(f, dir, Dir)
        raised == Unreadable(f, path, ext)
        f2     == FsUnion(f1, Extracted(f, path, ext, dir))
        f3     == FsRemove(f2, path)         \* finally: os.remove(file_path)
    IN  IF raised
        THEN [fs  |-> f3,
              ret |-> NoPath,
              exc |-> Exc(ExtractError(f, path), "extract_file"),
              log |-> <<start, Rec("ERROR", "extract_file", "Failed to extract file")>>]
        ELSE [fs  |-> f3,
              ret |-> dir,
              exc |-> NoExc,
              log |-> <<start, Rec("INFO", "extract_file", "Extraction completed")>>]

\* extract_file of the earlier revision: extracts into ".", logs no failure,
\* returns nothing
LegacyExtractFile(path, ext, f) ==
    LET start  == Rec("INFO", "extract_file", "Extracting file")
        raised == Unreadable(f, path, ext)
        f2     == FsUnion(f, Extracted(f, path, ext, Cwd))
        f3     == FsRemove(f2, path)         \* finally: os.remove(file_path)
    IN  IF raised
        THEN [fs  |-> f3,
              ret |-> NoPath,
              exc |-> Exc(ExtractError(f, path), "extract_file"),
              log |-> <<start>>]
        ELSE [fs  |-> f3,
              ret |-> NoPath,
              exc |-> NoExc,
              log |-> <<start, Rec("INFO", "extract_file", "Extraction completed")>>]

----------------------------------------------------------------------------
(* Installer: locating the executable and setting its permission *)

\* the directory holding p
Dirname(p) == SubSeq(p, 1, Len(p) - 1)

\* p is d or lies below d
IsPrefix(d, p) == Len(d) <= Len(p) /\ SubSeq(p, 1, Len(d)) = d

\* find_vespa_executable with os.listdir(extract_path) in place of os.walk:
\* only the files directly in extract_path are looked at
FindTopLevelOnly(dir, name, f) ==
    {p \in DOMAIN f : Dirname(p) = dir /\ Basename(p) = name /\ f[p].kind # "dir"}

\* find_vespa_executable: the files os.walk(extract_path) can report first.
\* os.walk goes top-down, so a match in a directory comes before the matches
\* below that directory; the order of sibling directories is unspecified.
FindVespaExecutable(dir, name, f) ==
    LET matches == {p \in DOMAIN f : Under(p, dir) /\ Basename(p) = name
                                     /\ f[p].kind # "dir"}
    IN  {p \in matches :
            \A q \in matches :
                ~(Dirname(q) # Dirname(p) /\ IsPrefix(Dirname(q), Dirname(p)))}

\* run of the earlier revision:
\* os.path.abspath(f"vespa-cli_{version}_{self.arch}/bin/{self.vespa_executable_name}")
LegacyVespaBinPath(v, a, name) ==
    Cwd \o <<"vespa-cli_" \o v \o "_" \o a, "bin", name>>

RECURSIVE BitOr(_, _)
\* a | b
BitOr(a, b) ==
    IF a = 0 THEN b
    ELSE IF b = 0 THEN a
    ELSE (IF a % 2 = 1 \/ b % 2 = 1 THEN 1 ELSE 0) + 2 * BitOr(a \div 2, b \div 2)

\* 0o111
ExecBits == 73

\* set_executable_permission with os.chmod(file_path, 0o111): the mode is
\* replaced by the execute bits instead of being or-ed with them
SetExecutablePermissionReplace(system, path, f) ==
    IF Lower(system) # "windows"
    THEN IF ~Exists(f, path)
         THEN [fs |-> f, exc |-> Exc("FileNotFoundError", "set_executable_permission"),
               log |-> <<>>]
         ELSE [fs  |-> FsWrite(f, path, [f[path] EXCEPT !.mode = ExecBits]),
               exc |-> NoExc,
               log |-> <<Rec("INFO", "set_executable_permission", "Set executable permission")>>]
    ELSE [fs |-> f, exc |-> NoExc, log |-> <<>>]

\* set_executable_permission(file_path): [fs, exc, log]
SetExecutablePermission(system, path, f) ==
    IF Lower(system) # "windows"
    THEN IF ~Exists(f, path)
         THEN [fs |-> f, exc |-> Exc("FileNotFoundError", "set_executable_permission"),
               log |-> <<>>]
         ELSE [fs  |-> FsWrite(f, path, [f[path] EXCEPT !.mode = BitOr(@, ExecBits)]),
               exc |-> NoExc,
               log |-> <<Rec("INFO", "set_executable_permission", "Set executable permission")>>]
    ELSE [fs |-> f, exc |-> NoExc, log |-> <<>>]

----------------------------------------------------------------------------
(* Installer: alias creation and PATH update *)

\* os.environ["USERPROFILE"] and os.environ["HOME"]
UserProfile == <<"Users", "u">>
Home == <<"home", "u">>

\* os.path.join(USERPROFILE, "bin", self.vespa_executable_name)
WinTarget(name) == UserProfile \o <<"bin", name>>

\* target_path of the earlier revision's create_alias_unix
UnixTarget == <<"usr", "local", "bin", "vespa">>

\* shell_profiles of detect_shell_profile, in its order
ShellProfiles ==
    <<Home \o <<".bash_profile">>, Home \o <<".bashrc">>, Home \o <<".zshrc">>,
      Home \o <<".config", "fish", "config.fish">>>>

\* detect_shell_profile: the first profile that exists, NoPath when none does
DetectShellProfile(f) ==
    LET found == {i \in 1..Len(ShellProfiles) : Exists(f, ShellProfiles[i])}
    IN  IF found = {} THEN NoPath
        ELSE ShellProfiles[CHOOSE i \in found : \A j \in found : i <= j]

\* ensure_directory_exists(directory_path): [fs, log]
EnsureDirectoryExists(d, f) ==
    IF ~Exists(f, d)
    THEN [fs |-> FsWrite(f, d, Dir),
          log |-> <<Rec("INFO", "ensure_directory_exists", "Created directory")>>]
    ELSE [fs |-> f, log |-> <<>>]

\* update_system_path_windows of vespa_client: subprocess.run(..., shell=True)
\* without check; the exit status rc of setx is not looked at.  [env, exc, log]
UpdateSystemPathWindows(dir, env, rc) ==
    [env |-> IF rc = "0" THEN [env EXCEPT !.path = @ \cup {dir}] ELSE env,
     exc |-> NoExc,
     log |-> <<Rec("INFO", "update_system_path_windows", "Successfully added to PATH")>>]

\* update_system_path_windows of the earlier revision: check=True, and
\* subprocess.SubprocessError is caught and logged.  rc = "missing": setx
\* could not be started (FileNotFoundError, no SubprocessError).
LegacyUpdateSystemPathWindows(dir, env, rc) ==
    IF rc = "0"
    THEN [env |-> [env EXCEPT !.path = @ \cup {dir}],
          exc |-> NoExc,
          log |-> <<Rec("INFO", "update_system_path_windows", "Successfully added to PATH")>>]
    ELSE IF rc = "missing"
    THEN [env |-> env,
          exc |-> Exc("FileNotFoundError", "update_system_path_windows"),
          log |-> <<>>]
    ELSE [env |-> env,
          exc |-> NoExc,
          log |-> <<Rec("ERROR", "update_system_path_windows", "Failed to update system PATH")>>]

\* shutil.copy(src, dst) of an existing file
Copy(f, src, dst) == FsWrite(f, dst, f[src])

\* create_alias_windows of vespa_client: [fs, env, exc, log]
CreateAliasWindows(bin, name, f, env, rc) ==
    LET target == WinTarget(name)
        e == EnsureDirectoryExists(Dirname(target), f)
        u == UpdateSystemPathWindows(Dirname(target), env, rc)
    IN  IF ~Exists(e.fs, target)
        THEN IF ~Exists(e.fs, bin)
             THEN [fs |-> e.fs, env |-> env,
                   exc |-> Exc("FileNotFoundError", "create_alias_windows"),
                   log |-> e.log]
             ELSE [fs |-> Copy(e.fs, bin, target), env |-> u.env, exc |-> u.exc,
                   log |-> e.log \o u.log \o
                           <<Rec("INFO", "create_alias_windows", "Created alias")>>]
        ELSE [fs |-> e.fs, env |-> env, exc |-> NoExc,
              log |-> e.log \o
                      <<Rec("INFO", "create_alias_windows", "Alias already exists")>>]

\* create_alias_windows of the earlier revision: add_to_path is called
\* whether or not the copy was made
LegacyCreateAliasWindows(bin, name, f, env, rc) ==
    LET target == WinTarget(name)
        e == EnsureDirectoryExists(Dirname(target), f)
        u == LegacyUpdateSystemPathWindows(Dirname(target), env, rc)
    IN  IF ~Exists(e.fs, target) /\ ~Exists(e.fs, bin)
        THEN [fs |-> e.fs, env |-> env,
              exc |-> Exc("FileNotFoundError", "create_alias_windows"),
              log |-> e.log]
        ELSE [fs  |-> IF ~Exists(e.fs, target) THEN Copy(e.fs, bin, target) ELSE e.fs,
              env |-> u.env, exc |-> u.exc, log |-> e.log \o u.log]

\* create_alias_unix of vespa_client: appends the alias to the shell profile.
\* written = FALSE: opening or writing the profile failed.  [fs, env, exc, log]
CreateAliasUnix(bin, f, env, written) ==
    LET shell_profile == DetectShellProfile(f)
    IN  IF shell_profile = NoPath
        THEN [fs |-> f, env |-> env, exc |-> NoExc,
              log |-> <<Rec("WARNING", "detect_shell_profile", "Could not detect shell profile"),
                        Rec("ERROR", "create_alias_unix", "Shell profile not found")>>]
        ELSE IF written
        THEN [fs |-> f, env |-> [env EXCEPT !.aliases = Append(@, bin)], exc |-> NoExc,
              log |-> <<Rec("INFO", "create_alias_unix", "Added alias"),
                        Rec("INFO", "create_alias_unix", "Please source your shell profile")>>]
        ELSE [fs |-> f, env |-> env, exc |-> NoExc,
              log |-> <<Rec("ERROR", "create_alias_unix", "Failed to add alias")>>]

\* create_alias_unix of the earlier revision: replaces /usr/local/bin/vespa by
\* a symlink.  permitted = FALSE: the user may not write /usr/local/bin.
LegacyCreateAliasUnix(bin, f, env, permitted) ==
    IF ~permitted
    THEN [fs |-> f, env |-> env,
          exc |-> Exc("PermissionError", "create_alias_unix"), log |-> <<>>]
    ELSE [fs  |-> FsWrite(IF Exists(f, UnixTarget) THEN FsRemove(f, UnixTarget) ELSE f,
                          UnixTarget, File("symlink", "", 511, {bin})),
          env |-> env, exc |-> NoExc,
          log |-> <<Rec("INFO", "create_alias_unix", "Created symlink")>>]

----------------------------------------------------------------------------
(* Installer: version lookup and Homebrew *)

\* what the metadata endpoint can answer: a release tag, a request error, or a
\* JSON object without "tag_name"
VersionAnswers ==
    {[status |-> "ok", tag |-> latest_tag]}
    \cup {[status |-> st, tag |-> <<>>] : st \in {"ConnectionError", "HTTPError", "KeyError"}}

\* get_latest_version of vespa_client: [version, exc, log]
GetLatestVersion(ans) ==
    IF ans.status = "ok"
    THEN [version |-> Join(ReplaceV(ans.tag)), exc |-> NoExc,
          log |-> <<Rec("INFO", "get_latest_version", "Latest Vespa CLI version")>>]
    ELSE IF ans.status \in RequestExceptions
    THEN [version |-> None, exc |-> Exc(ans.status, "get_latest_version"),
          log |-> <<Rec("ERROR", "get_latest_version", "Failed to retrieve the latest version")>>]
    ELSE [version |-> None, exc |-> Exc(ans.status, "get_latest_version"), log |-> <<>>]

\* the version lookup at the head of run in the earlier revision
LegacyGetLatestVersion(ans) ==
    IF ans.status = "ok"
    THEN [version |-> Join(ReplaceV(ans.tag)), exc |-> NoExc, log |-> <<>>]
    ELSE [version |-> None, exc |-> Exc(ans.status, "run"), log |-> <<>>]

\* check_brew_installed with "return True" in the except clause: a failed
\* check counts as Homebrew being present
CheckBrewInstalledTrueOnError(which) ==
    IF which = "0"
    THEN [ret |-> TRUE,
          log |-> <<Rec("INFO", "check_brew_installed", "Homebrew is installed")>>]
    ELSE IF which = "1"
    THEN [ret |-> FALSE,
          log |-> <<Rec("INFO", "check_brew_installed", "Homebrew is not installed")>>]
    ELSE [ret |-> TRUE,
          log |-> <<Rec("ERROR", "check_brew_installed", "An error occurred while checking for Homebrew")>>]

\* check_brew_installed: which = "0" (found), "1" (not found), "error"
CheckBrewInstalled(which) ==
    IF which = "0"
    THEN [ret |-> TRUE,
          log |-> <<Rec("INFO", "check_brew_installed", "Homebrew is installed")>>]
    ELSE IF which = "1"
    THEN [ret |-> FALSE,
          log |-> <<Rec("INFO", "check_brew_installed", "Homebrew is not installed")>>]
    ELSE [ret |-> FALSE,
          log |-> <<Rec("ERROR", "check_brew_installed", "An error occurred while checking for Homebrew")>>]

----------------------------------------------------------------------------
(* Initial states *)

Installers == {"vespa_client", "vespa"}
Programs == Installers \cup {"downloader"}

\* the host the batch downloader runs on: it does not look at its platform
BuildHost == [system |-> "Linux", machine |-> "x86_64"]

\* an executable placed by an earlier installation
OldInstall == File("exe", "old", 493, {})

\* INSTALLATION_DIR of the batch downloader
INSTALLATION_DIR == <<"repo", "vespacli", "go-binaries">>

\* what may be on disk before the first run
PreExisting(p, h) ==
    IF p = "downloader" THEN {INSTALLATION_DIR}
    ELSE IF Lower(h.system) = "windows"
         THEN {Dirname(WinTarget("vespa.exe")), WinTarget("vespa.exe")}
    ELSE IF Lower(h.system) \notin SUPPORTED_OS THEN {}
    ELSE IF p = "vespa" THEN {UnixTarget}
    ELSE {ShellProfiles[1], ShellProfiles[3]}

PreFile(q) ==
    IF Basename(q) \in {"vespa", "vespa.exe"} THEN OldInstall
    ELSE IF Basename(q) \in {"bin", "go-binaries"} THEN Dir
    ELSE File("text", "", 420, {})

InitialFs(p, h) ==
    {[q \in S |-> PreFile(q)] :
        S \in {T \in SUBSET PreExisting(p, h) :
                 \A q \in T : Len(q) > 2 /\ Dirname(q) \in PreExisting(p, h)
                                => Dirname(q) \in T}}

NoIo == [op |-> "none", answer |-> "none"]
Io(op, answer) == [op |-> op, answer |-> answer]

NoEnv == [path |-> {}, aliases |-> <<>>]

Init ==
    /\ prog \in Programs
    /\ latest_tag \in Tags
    /\ host \in IF prog = "downloader" THEN {BuildHost} ELSE Hosts
    /\ fs \in InitialFs(prog, host)
    /\ pc = "start"
    /\ run_no = 1
    /\ os_name = None
    /\ arch = None
    /\ version = None
    /\ url = <<>>
    /\ file_path = NoPath
    /\ extract_path = NoPath
    /\ vespa_bin_path = NoPath
    /\ log = <<>>
    /\ exc = NoExc
    /\ io = NoIo
    /\ user_env = NoEnv
    /\ idx = 0
    /\ checksum_content = <<>>

----------------------------------------------------------------------------
(* Installer: the steps of __init__ and run *)

\* After with run's clause narrowed to "except requests.exceptions.
\* RequestException": any other error leaves run
AfterRequestOnly(e, next) ==
    IF e = NoExc THEN next
    ELSE IF e.type \in RequestExceptions THEN "except" ELSE "crashed"

\* After with the try block left out of each step's caller: the chain goes on
\* to the next step whatever the step raised
AfterContinue(e, next) == next

\* where a step goes on: the next step, or run's except clause
After(e, next) == IF e = NoExc THEN next ELSE "except"

\* __init__: get_os_and_architecture; an error leaves the constructor
Construct ==
    /\ pc = "start" /\ prog \in Installers
    /\ LET r == IF prog = "vespa_client"
                THEN GetOsAndArchitecture(host.system, host.machine)
                ELSE LegacyGetOsAndArchitecture(host.system, host.machine)
       IN  /\ os_name' = r.os_name
           /\ arch' = r.arch
           /\ exc' = IF r.raised THEN Exc("ValueError", "get_os_and_architecture") ELSE NoExc
           /\ log' = IF r.raised THEN log
                     ELSE Append(log, Rec("INFO", "get_os_and_architecture", "Detected OS"))
           /\ pc' = IF r.raised THEN "crashed"
                    ELSE IF prog = "vespa_client" THEN "brew" ELSE "version"
    /\ io' = Io("platform", host.system)
    /\ UNCHANGED <<prog, latest_tag, host, run_no, version, url, file_path, extract_path,
                   vespa_bin_path, fs, user_env, idx, checksum_content>>

\* run of vespa_client, lines 188-195: the Homebrew installation on darwin
BrewFallback ==
    /\ pc = "brew" /\ prog = "vespa_client"
    /\ IF os_name = "darwin"
       THEN \E which \in {"0", "1", "error"}, rc \in {"0", "1"} :
              LET c == CheckBrewInstalled(which)
              IN  /\ which # "0" => rc = "1"
                  /\ io' = Io("brew", "which " \o which \o
                                       (IF c.ret THEN " install " \o rc ELSE ""))
                  /\ log' = log \o c.log \o
                       (IF ~c.ret THEN <<>>
                        ELSE IF rc = "0"
                        THEN <<Rec("INFO", "run", "Using Homebrew to install Vespa CLI"),
                               Rec("INFO", "run", "Vespa CLI installed successfully")>>
                        ELSE <<Rec("INFO", "run", "Using Homebrew to install Vespa CLI"),
                               Rec("INFO", "run", "Failed to install Vespa CLI with homebrew")>>)
                  /\ pc' = IF c.ret /\ rc = "0" THEN "done" ELSE "version"
       ELSE /\ io' = Io("brew", "not darwin")
            /\ log' = log
            /\ pc' = "version"
    /\ UNCHANGED <<prog, latest_tag, host, run_no, os_name, arch, version, url, file_path,
                   extract_path, vespa_bin_path, fs, exc, user_env, idx,
                   checksum_content>>

\* the version lookup of run
LatestVersion ==
    /\ pc = "version" /\ prog \in Installers
    /\ \E ans \in VersionAnswers :
         LET r == IF prog = "vespa_client" THEN GetLatestVersion(ans)
                  ELSE LegacyGetLatestVersion(ans)
         IN  /\ version' = r.version
             /\ exc' = r.exc
             /\ log' = log \o r.log
             /\ pc' = After(r.exc, "download")
             /\ io' = Io("get_latest_version", ans.status)
    /\ UNCHANGED <<prog, latest_tag, host, run_no, os_name, arch, url, file_path, extract_path,
                   vespa_bin_path, fs, user_env, idx, checksum_content>>

\* download_and_extract_cli up to the return of download_file
Download ==
    /\ pc = "download" /\ prog \in Installers
    /\ url' = DownloadUrl(version, os_name, arch)
    /\ \E resp \in Responses(version, os_name, arch) :
         LET d == DownloadFile(TmpFile(run_no, FileExtension(os_name)), resp, fs)
         IN  /\ fs' = d.fs
             /\ file_path' = d.ret
             /\ exc' = d.exc
             /\ log' = log \o d.log
             /\ pc' = After(d.exc, "extract")
             /\ io' = Io("download_file", resp.status)
    /\ UNCHANGED <<prog, latest_tag, host, run_no, os_name, arch, version, extract_path,
                   vespa_bin_path, user_env, idx, checksum_content>>

\* download_and_extract_cli from the call of extract_file to its return
Extract ==
    /\ pc = "extract" /\ prog \in Installers
    /\ LET ext == FileExtension(os_name)
           x == IF prog = "vespa_client"
                THEN ExtractFile(file_path, ext, TmpDir(run_no), fs)
                ELSE LegacyExtractFile(file_path, ext, fs)
       IN  /\ fs' = x.fs
           /\ extract_path' = x.ret
           /\ exc' = x.exc
           /\ log' = log \o x.log \o
                     (IF prog = "vespa" /\ x.exc = NoExc
                      THEN <<Rec("INFO", "download_and_extract_cli", "successfully installed")>>
                      ELSE <<>>)
           /\ pc' = After(x.exc, "find")
           /\ io' = Io("extract_file",
                       IF Unreadable(fs, file_path, ext) THEN "unreadable" ELSE "ok")
    /\ UNCHANGED <<prog, latest_tag, host, run_no, os_name, arch, version, url, file_path,
                   vespa_bin_path, user_env, idx, checksum_content>>

\* run: vespa_bin_path = find_vespa_executable(extract_path), or the fixed
\* path of the earlier revision
Find ==
    /\ pc = "find" /\ prog \in Installers
    /\ LET name == VespaExecutableName(os_name)
           found == FindVespaExecutable(extract_path, name, fs)
       IN  IF prog = "vespa"
           THEN /\ vespa_bin_path' = LegacyVespaBinPath(version, arch, name)
                /\ UNCHANGED <<exc, log>>
                /\ pc' = "chmod"
           ELSE IF found = {}
           THEN /\ vespa_bin_path' = NoPath
                /\ exc' = Exc("FileNotFoundError", "find_vespa_executable")
                /\ log' = Append(log, Rec("ERROR", "find_vespa_executable",
                                          "Vespa CLI executable not found"))
                /\ pc' = "except"
           ELSE /\ vespa_bin_path' \in found
                /\ UNCHANGED <<exc, log>>
                /\ pc' = "chmod"
    /\ io' = Io("find_vespa_executable",
                IF prog = "vespa" THEN "computed"
                ELSE IF FindVespaExecutable(extract_path, VespaExecutableName(os_name), fs) = {}
                THEN "not found" ELSE "found")
    /\ UNCHANGED <<prog, latest_tag, host, run_no, os_name, arch, version, url, file_path,
                   extract_path, fs, user_env, idx, checksum_content>>

\* run: self.set_executable_permission(vespa_bin_path)
Chmod ==
    /\ pc = "chmod" /\ prog \in Installers
    /\ LET r == SetExecutablePermission(host.system, vespa_bin_path, fs)
       IN  /\ fs' = r.fs
           /\ exc' = r.exc
           /\ log' = log \o r.log
           /\ pc' = After(r.exc, "alias")
    /\ io' = Io("set_executable_permission",
                IF Lower(host.system) = "windows" THEN "skipped"
                ELSE IF Exists(fs, vespa_bin_path) THEN "chmod" ELSE "missing")
    /\ UNCHANGED <<prog, latest_tag, host, run_no, os_name, arch, version, url, file_path,
                   extract_path, vespa_bin_path, user_env, idx, checksum_content>>

\* setx is started by create_alias_windows
SetxCalled(p, name, f, bin) ==
    IF p = "vespa" THEN Exists(f, WinTarget(name)) \/ Exists(f, bin)
    ELSE ~Exists(f, WinTarget(name)) /\ Exists(f, bin)

\* the exit status of setx; "missing": setx cannot be started
SetxAnswers(p) == IF p = "vespa" THEN {"0", "1", "missing"} ELSE {"0", "1"}

\* run: self.create_alias(vespa_bin_path)
Alias ==
    /\ pc = "alias" /\ prog \in Installers
    /\ LET name == VespaExecutableName(os_name)
       IN  \E answer \in SetxAnswers(prog) \cup {"not called", "written", "write failed",
                                                  "no profile", "permitted", "denied"} :
             LET r == IF os_name = "windows"
                      THEN IF prog = "vespa_client"
                           THEN CreateAliasWindows(vespa_bin_path, name, fs, user_env, answer)
                           ELSE LegacyCreateAliasWindows(vespa_bin_path, name, fs, user_env, answer)
                      ELSE IF prog = "vespa_client"
                           THEN CreateAliasUnix(vespa_bin_path, fs, user_env, answer = "written")
                           ELSE LegacyCreateAliasUnix(vespa_bin_path, fs, user_env,
                                                      answer = "permitted")
             IN  /\ IF os_name = "windows"
                    THEN IF SetxCalled(prog, name, fs, vespa_bin_path)
                         THEN answer \in SetxAnswers(prog)
                         ELSE answer = "not called"
                    ELSE IF prog = "vespa_client"
                         THEN IF DetectShellProfile(fs) = NoPath
                              THEN answer = "no profile"
                              ELSE answer \in {"written", "write failed"}
                         ELSE answer \in {"permitted", "denied"}
                 /\ fs' = r.fs
                 /\ user_env' = r.env
                 /\ exc' = r.exc
                 /\ log' = log \o r.log
                 /\ pc' = After(r.exc, "done")
                 /\ io' = Io("create_alias",
                             IF os_name = "windows" /\ ~Exists(fs, WinTarget(name))
                                  /\ ~Exists(fs, vespa_bin_path)
                             THEN "no source" ELSE answer)
    /\ UNCHANGED <<prog, latest_tag, host, run_no, os_name, arch, version, url, file_path,
                   extract_path, vespa_bin_path, idx, checksum_content>>

\* run: except Exception as e: logging.exception(...)
RunExcept ==
    /\ pc = "except" /\ prog \in Installers
    /\ log' = Append(log, Rec("ERROR", "run", "An error occurred during installation"))
    /\ exc' = NoExc
    /\ pc' = "done"
    /\ UNCHANGED <<prog, latest_tag, host, run_no, os_name, arch, version, url, file_path,
                   extract_path, vespa_bin_path, fs, io, user_env, idx,
                   checksum_content>>

----------------------------------------------------------------------------
(* Batch downloader: src/utils/download_binaries.py *)

\* VALID_OS_ARCH, in the order run iterates over it
VALID_OS_ARCH ==
    <<[os |-> "windows", arch |-> "386"],   [os |-> "windows", arch |-> "amd64"],
      [os |-> "darwin",  arch |-> "amd64"], [os |-> "darwin",  arch |-> "arm64"],
      [os |-> "linux",   arch |-> "amd64"], [os |-> "linux",   arch |-> "arm64"]>>

\* checksum_url of download_checksum_file, kept as url.split("/")
ChecksumUrl(v) ==
    <<"https:", "", "github.com", "vespa-engine", "vespa", "releases",
      "download", "v" \o v, "vespa-cli_" \o v \o "_sha256sums.txt">>

\* hashlib.sha256(content).hexdigest(): one digest per content
Sha256(file) == "sha256(" \o file.kind \o "," \o file.info \o "," \o ToString(file.mode) \o ")"

\* the archive the release host publishes for (v, o, a)
Published(v, o, a) == Archive("os_arch", 488, v, o, a)

\* a path as the tokens of its string: "/" before every component
PathTokens(p) == IF p = <<>> THEN <<>> ELSE <<"/">> \o <<p[1]>> \o
                    [i \in 1..(2 * (Len(p) - 1)) |->
                        IF i % 2 = 1 THEN "/" ELSE p[(i \div 2) + 1]]

\* the manifests the release host can answer with; a line is the sequence of
\* the tokens of "<sha256hex>  <filename>\n"
\*   published    : every archive by its file name, with its digest
\*   wrong digest : every archive by its file name, with another digest
\*   absolute     : every archive by the path the downloader stores it at
\*   empty        : no line
ManifestKinds == {"published", "wrong digest", "absolute", "empty"}

ManifestLines(kind, v) ==
    IF kind = "empty" THEN <<>>
    ELSE [i \in 1..Len(VALID_OS_ARCH) |->
            LET o == VALID_OS_ARCH[i].os
                a == VALID_OS_ARCH[i].arch
                sha == IF kind = "wrong digest" THEN Sha256(Corrupt)
                       ELSE Sha256(Published(v, o, a))
                name == IF kind = "absolute"
                        THEN PathTokens(INSTALLATION_DIR \o <<ArchiveName(v, o, a)>>)
                        ELSE <<ArchiveName(v, o, a)>>
            IN  <<sha, "  ">> \o name \o <<"\n">>]

Manifest(kind) == File("text", kind, 420, {})

\* what a GET of the checksum URL can answer
ChecksumResponses ==
    {[status |-> "ok", body |-> Manifest(k)] : k \in ManifestKinds}
    \cup {[status |-> st, body |-> Empty] :
            st \in {"ConnectionError", "HTTPError", "OSError"}}

\* what a GET of an archive URL can answer to the downloader
BatchResponses(v, o, a) ==
    {[status |-> "ok", body |-> Published(v, o, a)], [status |-> "ok", body |-> Corrupt]}
    \cup {[status |-> st, body |-> Empty] :
            st \in {"ConnectionError", "HTTPError", "OSError"}}

\* get_latest_version of the downloader: tag_name.strip("v"), nothing caught
BatchGetLatestVersion(ans) ==
    IF ans.status = "ok"
    THEN [version |-> Join(StripV(ans.tag)), exc |-> NoExc,
          log |-> <<Rec("INFO", "get_latest_version", "Retrieving the latest Vespa CLI version")>>]
    ELSE [version |-> None, exc |-> Exc(ans.status, "get_latest_version"),
          log |-> <<Rec("INFO", "get_latest_version", "Retrieving the latest Vespa CLI version")>>]

\* download_file(url): the file is INSTALLATION_DIR/<last segment of url>.
\* A request error leaves before the file is opened; open fails when the
\* directory is missing; "OSError" is a failure while writing.
BatchDownloadFile(u, resp, f) ==
    LET file_name == u[Len(u)]                 \* url.split("/")[-1]
        path == INSTALLATION_DIR \o <<file_name>>
        start == Rec("INFO", "download_file", "Starting download")
    IN  IF resp.status \in RequestExceptions
        THEN [fs |-> f, ret |-> NoPath, exc |-> Exc(resp.status, "download_file"),
              log |-> <<start>>]
        ELSE IF ~Exists(f, INSTALLATION_DIR)
        THEN [fs |-> f, ret |-> NoPath, exc |-> Exc("FileNotFoundError", "download_file"),
              log |-> <<start>>]
        ELSE IF resp.status # "ok"
        THEN [fs |-> FsWrite(f, path, Empty), ret |-> NoPath,
              exc |-> Exc(resp.status, "download_file"), log |-> <<start>>]
        ELSE [fs |-> FsWrite(f, path, resp.body), ret |-> path, exc |-> NoExc,
              log |-> <<start, Rec("INFO", "download_file", "Download complete")>>]

\* extract_file(file_path, extract_to); ext is the suffix file_path ends with.
\* os.remove is the last statement: it is reached only when nothing raised.
BatchExtractFile(path, ext, extract_to, f) ==
    LET start == Rec("INFO", "extract_file", "Extracting file")
    IN  IF Unreadable(f, path, ext)
        THEN [fs |-> f, exc |-> Exc(ExtractError(f, path), "extract_file"),
              log |-> <<start>>]
        ELSE [fs |-> FsRemove(FsUnion(f, Extracted(f, path, ext, extract_to)), path),
              exc |-> NoExc, log |-> <<start>>]

\* needle in line, for sequences of tokens
Contains(line, needle) ==
    \E i \in 1..(Len(line) - Len(needle) + 1) :
        SubSeq(line, i, i + Len(needle) - 1) = needle

\* line.split()[0]
FirstField(line) ==
    LET fields == SelectSeq(line, LAMBDA t : t \notin {" ", "  ", "\n"})
    IN  fields[1]

RECURSIVE BatchVerifyChecksum(_, _, _)
\* verify_checksum(filename, checksum_content): [exc, log], the lines taken in
\* order; a line that does not contain filename is passed over
BatchVerifyChecksum(filename, content, f) ==
    IF content = <<>>
    THEN [exc |-> NoExc, log |-> <<>>]
    ELSE LET line == Head(content)
         IN  IF ~Contains(line, PathTokens(filename))
             THEN BatchVerifyChecksum(filename, Tail(content), f)
             ELSE IF ~Exists(f, filename)            \* open(filename, "rb")
             THEN [exc |-> Exc("FileNotFoundError", "verify_checksum"), log |-> <<>>]
             ELSE IF Sha256(f[filename]) = FirstField(line)
             THEN LET rest == BatchVerifyChecksum(filename, Tail(content), f)
                  IN  [exc |-> rest.exc,
                       log |-> <<Rec("INFO", "verify_checksum", "Checksum verified")>>
                               \o rest.log]
             ELSE [exc |-> Exc("Exception", "verify_checksum"),
                   log |-> <<Rec("ERROR", "verify_checksum", "Checksum verification failed")>>]

\* where a step of the downloader goes on: nothing catches an exception
BatchAfter(e, next) == IF e = NoExc THEN next ELSE "crashed"

\* run: version = self.get_latest_version()
BatchVersion ==
    /\ pc = "start" /\ prog = "downloader"
    /\ \E ans \in VersionAnswers :
         LET r == BatchGetLatestVersion(ans)
         IN  /\ version' = r.version
             /\ exc' = r.exc
             /\ log' = log \o r.log
             /\ pc' = BatchAfter(r.exc, "checksum")
             /\ io' = Io("get_latest_version", ans.status)
    /\ UNCHANGED <<prog, latest_tag, host, run_no, os_name, arch, url, file_path, extract_path,
                   vespa_bin_path, fs, user_env, idx, checksum_content>>

\* run: checksum_file = self.download_checksum_file(version);
\*      checksum_content = open(checksum_file, "r").readlines()
BatchChecksum ==
    /\ pc = "checksum" /\ prog = "downloader"
    /\ url' = ChecksumUrl(version)
    /\ \E resp \in ChecksumResponses :
         LET d == BatchDownloadFile(ChecksumUrl(version), resp, fs)
         IN  /\ fs' = d.fs
             /\ file_path' = d.ret
             /\ exc' = d.exc
             /\ log' = log \o <<Rec("INFO", "download_checksum_file", "Downloading checksum file")>>
                           \o d.log \o
                       (IF d.exc = NoExc
                        THEN <<Rec("INFO", "run", "Latest Vespa CLI version")>> ELSE <<>>)
             /\ checksum_content' = IF d.exc = NoExc
                                    THEN ManifestLines(d.fs[d.ret].info, version)
                                    ELSE <<>>
             /\ pc' = BatchAfter(d.exc, "pair")
             /\ idx' = IF d.exc = NoExc THEN 1 ELSE idx
             /\ io' = Io("download_checksum_file", resp.status)
    /\ UNCHANGED <<prog, latest_tag, host, run_no, os_name, arch, version, extract_path,
                   vespa_bin_path, user_env>>

\* download_and_extract_cli(version, os_name, arch) up to the return of
\* download_file, for the pair run is at
BatchDownload ==
    /\ pc = "pair" /\ prog = "downloader"
    /\ LET o == VALID_OS_ARCH[idx].os
           a == VALID_OS_ARCH[idx].arch
           e == EnsureDirectoryExists(INSTALLATION_DIR, fs)
       IN  /\ os_name' = o
           /\ arch' = a
           /\ url' = DownloadUrl(version, o, a)
           /\ \E resp \in BatchResponses(version, o, a) :
                LET d == BatchDownloadFile(DownloadUrl(version, o, a), resp, e.fs)
                IN  /\ fs' = d.fs
                    /\ file_path' = d.ret
                    /\ exc' = d.exc
                    /\ log' = log \o <<Rec("INFO", "ensure_directory_exists",
                                           "Ensured directory exists")>> \o d.log
                    /\ pc' = BatchAfter(d.exc, "unpack")
                    /\ io' = Io("download_file", resp.status)
    /\ UNCHANGED <<prog, latest_tag, host, run_no, version, extract_path, vespa_bin_path,
                   user_env, idx, checksum_content>>

\* download_and_extract_cli: self.extract_file(file_path, self.INSTALLATION_DIR)
BatchExtract ==
    /\ pc = "unpack" /\ prog = "downloader"
    /\ LET x == BatchExtractFile(file_path, FileExtension(os_name), INSTALLATION_DIR, fs)
       IN  /\ fs' = x.fs
           /\ exc' = x.exc
           /\ log' = log \o x.log
           /\ pc' = BatchAfter(x.exc, "verify")
           /\ io' = Io("extract_file",
                       IF Unreadable(fs, file_path, FileExtension(os_name))
                       THEN "unreadable" ELSE "ok")
    /\ UNCHANGED <<prog, latest_tag, host, run_no, os_name, arch, version, url, file_path,
                   extract_path, vespa_bin_path, user_env, idx, checksum_content>>

\* run: self.verify_checksum(file_path, checksum_content), then the next pair
BatchVerify ==
    /\ pc = "verify" /\ prog = "downloader"
    /\ LET r == BatchVerifyChecksum(file_path, checksum_content, fs)
           last == idx = Len(VALID_OS_ARCH)
       IN  /\ exc' = r.exc
           /\ log' = log \o <<Rec("INFO", "verify_checksum", "Verifying checksum")>> \o r.log \o
                     (IF r.exc = NoExc /\ last
                      THEN <<Rec("INFO", "run", "Binary download and extraction complete")>>
                      ELSE <<>>)
           /\ pc' = BatchAfter(r.exc, IF last THEN "done" ELSE "pair")
           /\ idx' = IF r.exc = NoExc /\ ~last THEN idx + 1 ELSE idx
           /\ io' = Io("verify_checksum", IF r.exc = NoExc THEN "passed" ELSE r.exc.type)
    /\ UNCHANGED <<prog, latest_tag, host, run_no, os_name, arch, version, url, file_path,
                   extract_path, vespa_bin_path, fs, user_env, checksum_content>>

----------------------------------------------------------------------------
\* the program is started again on the same host: a new process, the same disk
Rerun ==
    /\ pc \in {"done", "crashed"}
    /\ run_no < MaxRuns
    /\ run_no' = run_no + 1
    /\ pc' = "start"
    /\ os_name' = None
    /\ arch' = None
    /\ version' = None
    /\ url' = <<>>
    /\ file_path' = NoPath
    /\ extract_path' = NoPath
    /\ vespa_bin_path' = NoPath
    /\ log' = <<>>
    /\ exc' = NoExc
    /\ io' = NoIo
    /\ idx' = 0
    /\ checksum_content' = <<>>
    /\ UNCHANGED <<prog, latest_tag, host, fs, user_env>>

Next ==
    \/ Construct
    \/ BrewFallback
    \/ LatestVersion
    \/ Download
    \/ Extract
    \/ Find
    \/ Chmod
    \/ Alias
    \/ RunExcept
    \/ BatchVersion
    \/ BatchChecksum
    \/ BatchDownload
    \/ BatchExtract
    \/ BatchVerify
    \/ Rerun

Spec == Init /\ [][Next]_vars

----------------------------------------------------------------------------
(* Properties *)

\* the last record of the log, when the log has one
LastLog == log[Len(log)]

\* a record of the given levels was logged by function by
Logged(levels, by) == \E i \in 1..Len(log) : log[i].level \in levels /\ log[i].by = by

\* C1: platform resolution, in every installer revision: a host with OS in
\* windows/darwin/linux and a machine string that is a key of the fixed table
\* resolves to (os, table[machine]); every other host makes
\* get_os_and_architecture raise instead of returning a pair.
C1_PlatformResolution ==
    (prog \in Installers /\ io.op = "platform") =>
        LET o == Lower(host.system)
            m == Lower(host.machine)
            table == [k \in {"x86_64", "amd64", "arm64", "aarch64"} |->
                        CASE k = "x86_64"  -> "amd64"
                          [] k = "amd64"   -> "amd64"
                          [] k = "arm64"   -> "arm64"
                          [] k = "aarch64" -> "arm64"]
        IN  IF o \in {"windows", "darwin", "linux"} /\ m \in DOMAIN table
            THEN pc # "crashed" /\ exc = NoExc /\ os_name = o /\ arch = table[m]
            ELSE pc = "crashed" /\ exc.type = "ValueError"

\* C2: the installer's extract_file always deletes the source archive: after
\* the call, whether it returned or raised, the archive no longer exists, and
\* when the archive could not be read the extraction error is the one that
\* reaches the caller.
C2_ExtractDeletesArchive ==
    [][(pc = "extract" /\ prog \in Installers) =>
          /\ ~Exists(fs', file_path)
          /\ ~(fs[file_path].kind = "archive") =>
                (pc' = "except" /\ exc' = Exc("ReadError", "extract_file"))
          /\ fs[file_path].kind = "archive" => (pc' = "find" /\ exc' = NoExc)]_vars

\* C2 witness: extraction of an archive that was on disk failed, the error is
\* on its way to the caller and the archive is gone
C2_Witness ==
    /\ prog \in Installers
    /\ pc = "except"
    /\ io = Io("extract_file", "unreadable")
    /\ exc = Exc("ReadError", "extract_file")
    /\ file_path = TmpFile(run_no, FileExtension(os_name))
    /\ ~Exists(fs, file_path)

\* C3: after any run of the installer's download-and-extract step (success,
\* network error during download, archive error during extraction) the
\* temporary file created for the archive no longer exists when control
\* returns to the caller.
C3_TempFileRemoved ==
    (prog \in Installers /\ io.op \in {"download_file", "extract_file"}
        /\ pc \in {"find", "except"}) =>
        ~Exists(fs, TmpFile(run_no, FileExtension(os_name)))

\* the installer's download_file or extract_file has just met a failure
StepFailed ==
    /\ prog \in Installers
    /\ pc # "done"
    /\ \/ io.op = "download_file" /\ io.answer # "ok"
       \/ io.op = "extract_file" /\ io.answer # "ok"

InstallTarget == IF os_name = "windows" THEN WinTarget(VespaExecutableName(os_name))
                 ELSE UnixTarget

\* C5: installation is idempotent on every platform: when the install target
\* exists at the start of create_alias, the step leaves it exactly as it was
\* (no copy, move, removal or replacement); only when the target does not
\* exist is the executable placed there, on Windows at
\* <user profile>/bin/<executable name>.
C5_AliasIdempotent ==
    [][(pc = "alias" /\ prog \in Installers) =>
          /\ Exists(fs, InstallTarget) =>
                (Exists(fs', InstallTarget) /\ fs'[InstallTarget] = fs[InstallTarget])
          /\ (os_name = "windows" /\ ~Exists(fs, InstallTarget) /\ pc' = "done") =>
                /\ InstallTarget = <<"Users", "u", "bin", "vespa.exe">>
                /\ Exists(fs', InstallTarget)
                /\ fs'[InstallTarget] = fs[vespa_bin_path]]_vars

\* C6: verify_checksum passes (returns without raising) only if the manifest
\* has a line for the archive and the SHA-256 digest computed from the local
\* file equals the digest on that line.
C6_ChecksumPassesOnlyOnMatch ==
    (prog = "downloader" /\ io = Io("verify_checksum", "passed")) =>
        \E i \in 1..Len(checksum_content) :
            /\ \E k \in 1..Len(checksum_content[i]) :
                  checksum_content[i][k] = ArchiveName(version, os_name, arch)
            /\ Exists(fs, file_path)
            /\ Sha256(fs[file_path]) = checksum_content[i][1]

\* C7: the download URL built by download_and_extract_cli (installer and batch
\* downloader) is exactly
\* https://github.com/vespa-engine/vespa/releases/download/v<v>/vespa-cli_<v>_<os>_<arch>.<ext>
\* with ext = zip if and only if os is windows, and tar.gz otherwise.
C7_DownloadUrl ==
    (url # <<>> /\ io.op # "download_checksum_file") =>
        /\ UrlString(url) =
             "https://github.com/vespa-engine/vespa/releases/download/v" \o version
             \o "/vespa-cli_" \o version \o "_" \o os_name \o "_" \o arch
             \o (IF os_name = "windows" THEN ".zip" ELSE ".tar.gz")
        /\ (version = "8.299.14" /\ os_name = "darwin" /\ arch = "arm64") =>
             UrlString(url) = "https://github.com/vespa-engine/vespa/releases/download/v8.299.14/vespa-cli_8.299.14_darwin_arm64.tar.gz"
        /\ (version = "8.300.1" /\ os_name = "windows" /\ arch = "amd64") =>
             UrlString(url) = "https://github.com/vespa-engine/vespa/releases/download/v8.300.1/vespa-cli_8.300.1_windows_amd64.zip"

\* C7 witness: the URL for version 8.299.14 on darwin/arm64 has been built
C7_Witness ==
    /\ url # <<>>
    /\ io.op = "download_file"
    /\ version = "8.299.14" /\ os_name = "darwin" /\ arch = "arm64"

\* C8: a failure of the PATH-update step (setx exits with an error, the write
\* to the shell profile fails, no shell profile is found) is logged as a
\* warning or an error and swallowed: create_alias does not raise, run is not
\* aborted, and an executable placed at the install path stays there.
C8_PathFailureLoggedAndSwallowed ==
    (prog \in Installers /\ io.op = "create_alias"
        /\ io.answer \in {"1", "write failed", "no profile"}) =>
        /\ pc = "done" /\ exc = NoExc
        /\ ~Logged({"ERROR"}, "run")
        /\ \E i \in 1..Len(log) :
              /\ log[i].level \in {"WARNING", "ERROR"}
              /\ log[i].by \in {"update_system_path_windows", "create_alias_unix",
                                "detect_shell_profile"}
        /\ os_name = "windows" => Exists(fs, InstallTarget)

\* C9: in the batch downloader, extract_file removes the downloaded archive
\* whether extraction succeeds or fails: after it returns or raises, file_path
\* no longer exists in the installation directory.
C9_BatchExtractRemovesArchive ==
    (prog = "downloader" /\ io.op = "extract_file") =>
        (file_path # NoPath /\ ~Exists(fs, file_path))

\* C10: the checksum manifest is never persisted: after run finishes, normally
\* or with an error, no downloaded manifest is left on disk in the
\* installation directory, and the manifest is fetched exactly once per run.
C10_ManifestNotPersisted ==
    (prog = "downloader" /\ pc \in {"done", "crashed"}) =>
        /\ \A p \in DOMAIN fs :
              ~(Under(p, INSTALLATION_DIR) /\ fs[p].kind = "text"
                  /\ fs[p].info \in ManifestKinds)
        /\ Cardinality({i \in 1..Len(log) : log[i].by = "download_checksum_file"}) <= 1
        /\ pc = "done" =>
              Cardinality({i \in 1..Len(log) : log[i].by = "download_checksum_file"}) = 1

\* C11: download_and_extract_cli returns the directory extract_file produced:
\* after a successful extraction extract_path names a directory that did not
\* exist before the call (so it is fresh in every run), is not the current
\* working directory, and holds every member of the archive.
C11_FreshExtractDirectory ==
    [][(prog \in Installers /\ pc = "extract" /\ pc' = "find") =>
          /\ extract_path' # NoPath
          /\ extract_path' # Cwd
          /\ ~Exists(fs, extract_path')
          /\ Exists(fs', extract_path')
          /\ \A m \in fs[file_path].refs : Exists(fs', extract_path' \o m)]_vars

\* a step of run has failed: the environment's answer to the last step is one
\* that makes version lookup, download, extraction, locating the executable,
\* setting the executable bit or alias creation raise
RunStepFailed ==
    \/ io.op = "get_latest_version" /\ io.answer # "ok"
    \/ io.op = "download_file" /\ io.answer # "ok"
    \/ io.op = "extract_file" /\ io.answer = "unreadable"
    \/ io.op = "find_vespa_executable" /\ io.answer = "not found"
    \/ io.op = "set_executable_permission" /\ io.answer = "missing"
    \/ io.op = "create_alias" /\ io.answer \in {"no source", "missing", "denied"}

\* C12: run never propagates an exception: once run has started, a failure of
\* any of its steps is caught by run's except clause (the process is never
\* left with the error), logged at ERROR level by run, and run then returns
\* normally, in the same final state "done" as a successful run.
C12_RunNeverPropagates ==
    (prog \in Installers /\ io.op \notin {NoIo.op, "platform"}) =>
        /\ pc # "crashed"
        /\ exc # NoExc => pc = "except"
        /\ RunStepFailed => pc \in {"except", "done"}
        /\ pc = "done" =>
              /\ exc = NoExc
              /\ RunStepFailed =>
                    LastLog = Rec("ERROR", "run", "An error occurred during installation")

\* a failed run that has returned
C12_Witness ==
    /\ prog \in Installers /\ pc = "done" /\ RunStepFailed
    /\ Logged({"ERROR"}, "run")

\* the statements of __init__ and run in program order; "except" and "done"
\* are run's except clause and its return
RunOrder ==
    <<"start", "brew", "version", "download", "extract", "find", "chmod", "alias",
      "except", "done">>

Position(p) == CHOOSE i \in 1..Len(RunOrder) : RunOrder[i] = p

\* the steps of the binary installation chain
ChainSteps == {"version", "download", "extract", "find", "chmod", "alias"}

\* what an installation leaves for the user: the install targets and the
\* shell profiles on disk
Installed(f) ==
    LET paths == {WinTarget("vespa.exe"), WinTarget("vespa"), UnixTarget}
                   \cup {ShellProfiles[i] : i \in 1..Len(ShellProfiles)}
    IN  [p \in paths \cap DOMAIN f |-> f[p]]

\* C13: run is one linear chain: within a run every step moves forward in the
\* order version lookup, download, extraction, locate executable, set
\* executable bit, alias/PATH (no step is retried or repeated); a step of the
\* chain starts only directly after its predecessor completed without an
\* error; a step that raises is followed only by run's except clause and the
\* return; and no step other than alias creation changes the install path,
\* the shell profiles or PATH, so a run that fails before alias creation
\* leaves them unchanged.
C13_LinearChain ==
    [][(prog \in Installers /\ run_no' = run_no /\ pc' # pc) =>
          /\ pc' # "crashed" => Position(pc') > Position(pc)
          /\ pc' = "crashed" => pc = "start"
          /\ pc' \in ChainSteps =>
                /\ exc' = NoExc
                /\ \/ Position(pc') = Position(pc) + 1
                   \/ pc = "start" /\ pc' = "version" /\ prog = "vespa"
          /\ exc' # NoExc => pc' \in {"except", "crashed"}
          /\ pc = "except" => pc' = "done"
          /\ pc # "alias" =>
                /\ user_env' = user_env
                /\ Installed(fs') = Installed(fs)]_vars

\* a run that failed at the download has returned: no later step ran and
\* nothing is installed
C13_Witness ==
    /\ prog \in Installers /\ pc = "done"
    /\ io = Io("download_file", "HTTPError")
    /\ extract_path = NoPath /\ vespa_bin_path = NoPath
    /\ ~Exists(fs, InstallTarget) /\ user_env = NoEnv

\* C14: find_vespa_executable(extract_path): when a file named like the
\* platform executable (vespa.exe on Windows, vespa otherwise) exists at any
\* depth under extract_path, the call returns the path of such a file; when
\* none exists it raises FileNotFoundError and returns nothing.  (The states
\* are those right after the call: run is at its next statement or at its
\* except clause.)
C14_FindVespaExecutable ==
    (prog = "vespa_client" /\ io.op = "find_vespa_executable"
        /\ pc \in {"chmod", "except"}) =>
        LET name    == IF os_name = "windows" THEN "vespa.exe" ELSE "vespa"
            matches == {p \in DOMAIN fs : /\ Under(p, extract_path)
                                          /\ Basename(p) = name
                                          /\ fs[p].kind # "dir"}
        IN  IF matches # {}
            THEN /\ vespa_bin_path \in matches
                 /\ pc = "chmod" /\ exc = NoExc
            ELSE /\ vespa_bin_path = NoPath
                 /\ pc = "except"
                 /\ exc = Exc("FileNotFoundError", "find_vespa_executable")

\* the executable was found two directories below extract_path
C14_Witness ==
    /\ prog = "vespa_client" /\ io = Io("find_vespa_executable", "found")
    /\ Len(vespa_bin_path) = Len(extract_path) + 3
    /\ Exists(fs, vespa_bin_path)

\* bit i of a permission mode
Bit(n, i) == (n \div (2 ^ i)) % 2

\* the positions of the execute bits of others, group and owner
ExecBitPositions == {0, 3, 6}

\* C15: set_executable_permission(path) on an existing file: on a non-Windows
\* host the new mode has the three execute bits set and every other bit as
\* before, nothing else on disk changes, and a second application changes
\* nothing; on a Windows host nothing changes at all.
C15_SetExecutablePermission ==
    [][(prog \in Installers /\ pc = "chmod" /\ Exists(fs, vespa_bin_path)) =>
          IF Lower(host.system) = "windows"
          THEN fs' = fs /\ exc' = NoExc
          ELSE /\ exc' = NoExc
               /\ DOMAIN fs' = DOMAIN fs
               /\ \A p \in DOMAIN fs : p # vespa_bin_path => fs'[p] = fs[p]
               /\ fs'[vespa_bin_path] =
                     [fs[vespa_bin_path] EXCEPT !.mode = fs'[vespa_bin_path].mode]
               /\ \A i \in 0..11 :
                     Bit(fs'[vespa_bin_path].mode, i) =
                        IF i \in ExecBitPositions THEN 1
                        ELSE Bit(fs[vespa_bin_path].mode, i)
               /\ SetExecutablePermission(host.system, vespa_bin_path, fs').fs = fs']_vars

\* the executable bit was just set on a file that was extracted without it:
\* it is now executable by all and still not writable by group and others
C15_Witness ==
    /\ prog \in Installers /\ io = Io("set_executable_permission", "chmod")
    /\ pc = "alias"
    /\ \A i \in ExecBitPositions : Bit(fs[vespa_bin_path].mode, i) = 1
    /\ Bit(fs[vespa_bin_path].mode, 1) = 0 /\ Bit(fs[vespa_bin_path].mode, 4) = 0

\* C16: in the batch downloader's run, each of the six archives is really
\* checked: when verify_checksum is called the archive is still on disk and a
\* manifest line is matched for it, and run completes normally only after six
\* digests were compared and found equal.
C16_AllDigestsCompared ==
    prog = "downloader" =>
        /\ pc = "verify" =>
              /\ Exists(fs, file_path)
              /\ \E i \in 1..Len(checksum_content) :
                    Contains(checksum_content[i], PathTokens(file_path))
        /\ pc = "done" =>
              Cardinality({i \in 1..Len(log) :
                              log[i] = Rec("INFO", "verify_checksum", "Checksum verified")})
                 = Len(VALID_OS_ARCH)

\* "brew install vespa-cli" was started in the last step
BrewInvoked(l) ==
    \E i \in 1..Len(l) : l[i] = Rec("INFO", "run", "Using Homebrew to install Vespa CLI")

\* C17: the Homebrew step of run (vespa_client): it never looks up a version,
\* downloads, extracts or installs anything itself; on a non-darwin OS
\* Homebrew is neither checked nor invoked and run goes on to the binary
\* installation; on darwin "brew install" is invoked only when "which brew"
\* exited 0, run returns right away when the install exits 0, and goes on to
\* the binary installation when Homebrew is absent, the check failed, or the
\* install exited non-zero.
C17_HomebrewFallback ==
    [][(prog = "vespa_client" /\ pc = "brew") =>
          /\ fs' = fs /\ user_env' = user_env /\ exc' = NoExc
          /\ version' = None /\ url' = <<>>
          /\ file_path' = NoPath /\ extract_path' = NoPath /\ vespa_bin_path' = NoPath
          /\ IF os_name # "darwin"
             THEN /\ io' = Io("brew", "not darwin")
                  /\ log' = log
                  /\ pc' = "version"
             ELSE /\ io'.op = "brew"
                  /\ io'.answer \in {"which 0 install 0", "which 0 install 1",
                                      "which 1", "which error"}
                  /\ BrewInvoked(log') <=> io'.answer \in {"which 0 install 0",
                                                           "which 0 install 1"}
                  /\ pc' = IF io'.answer = "which 0 install 0" THEN "done" ELSE "version"]_vars

\* Homebrew installed the CLI and run has returned: nothing was looked up,
\* downloaded or extracted in this run
C17_Witness ==
    /\ prog = "vespa_client" /\ os_name = "darwin" /\ pc = "done"
    /\ io = Io("brew", "which 0 install 0")
    /\ version = None /\ url = <<>> /\ extract_path = NoPath
    /\ \A i \in 1..Len(log) :
          log[i].by \in {"get_os_and_architecture", "check_brew_installed", "run"}

====
